---- MODULE Spec2Model ----
(***************************************************************************)
(* A model of compute_deflections.py: the two-segment deflection formulas  *)
(* y1, y2, theta1, theta2, the sweep of compute_deflections (empty checks, *)
(* per-beam prompt for the transition point T, nested loops writing CSV    *)
(* rows) and the curve building of plot_deflections, run in the order of   *)
(* main().                                                                 *)
(*                                                                         *)
(* Numbers.  The source computes in floating point; the model computes in  *)
(* exact rational arithmetic.  A rational is a pair <<n, d>> with d > 0    *)
(* and gcd(n, d) = 1.  Lengths (x, L, T) are counted in units of half a    *)
(* sampling step (0.00125 m), so that a beam length need not be a whole    *)
(* multiple of the 0.0025 m step; E, I and w are counted in arbitrary      *)
(* positive units (the formulas are homogeneous in each of them).          *)
(***************************************************************************)
EXTENDS Integers, Sequences, FiniteSets, TLC

(***************************************************************************)
(* Bounds of the model.                                                    *)
(***************************************************************************)
MaxBeams == 2
MaxLoads == 2
MaxMaterials == 2
MaxL == 3
MaxRejections == 1
MaxE == 2
MaxI == 2
MaxW == 2

(***************************************************************************)
(* Exact rational arithmetic.                                              *)
(***************************************************************************)
Abs(n) == IF n < 0 THEN -n ELSE n

RECURSIVE Gcd(_, _)
Gcd(a, b) == IF b = 0 THEN a ELSE Gcd(b, a % b)

Norm(n, d) ==
  LET g == Gcd(Abs(n), Abs(d))
      s == IF d < 0 THEN -1 ELSE 1
  IN  <<(s * n) \div g, (s * d) \div g>>

Q(n) == <<n, 1>>
Neg(a) == <<-a[1], a[2]>>
Add(a, b) == Norm(a[1] * b[2] + b[1] * a[2], a[2] * b[2])
Sub(a, b) == Add(a, Neg(b))
Mul(a, b) == Norm(a[1] * b[1], a[2] * b[2])
Div(a, b) == Norm(a[1] * b[2], a[2] * b[1])
Lt(a, b) == a[1] * b[2] < b[1] * a[2]
Le(a, b) == a[1] * b[2] <= b[1] * a[2]

RECURSIVE Pow(_, _)
Pow(a, k) == IF k = 0 THEN Q(1) ELSE Mul(a, Pow(a, k - 1))

(***************************************************************************)
(* The deflection model: each formula is evaluated in the order Python     *)
(* evaluates the source expression.                                        *)
(***************************************************************************)
y1_drop_offset(x, E1, I, L, w) ==
  Sub(Mul(Div(Neg(w), Mul(Mul(Q(24), E1), I)), Pow(Sub(L, x), 4)),
      Mul(Div(Mul(w, Pow(L, 3)), Mul(Mul(Q(6), E1), I)), x))

y1(x, E1, I, L, w) ==
  Add(Sub(Mul(Div(Neg(w), Mul(Mul(Q(24), E1), I)), Pow(Sub(L, x), 4)),
          Mul(Div(Mul(w, Pow(L, 3)), Mul(Mul(Q(6), E1), I)), x)),
      Div(Mul(w, Pow(L, 4)), Mul(Mul(Q(24), E1), I)))

y2_coefficient(E1, E2, I, L, T, w) ==
  Mul(Div(Neg(w), Mul(Q(6), I)),
      Add(Div(Sub(Pow(L, 3), Pow(Sub(L, T), 3)), E1),
          Div(Pow(Sub(L, T), 3), E2)))

y2_term5_sign(x, E1, E2, I, L, T, w) ==
  LET term1 == Mul(Div(Neg(w), Mul(Mul(Q(24), E2), I)), Pow(Sub(L, x), 4))
      coefficient == y2_coefficient(E1, E2, I, L, T, w)
      term2 == Mul(coefficient, x)
      term3 == Mul(Div(w, Mul(Mul(Q(24), E1), I)),
                   Sub(Sub(Pow(L, 4), Pow(Sub(L, T), 4)),
                       Mul(Mul(Q(4), Pow(L, 3)), T)))
      term4 == Mul(Div(w, Mul(Mul(Q(24), E2), I)), Pow(Sub(L, T), 4))
      term5 == Mul(coefficient, T)
  IN  Add(Add(Add(Add(term1, term2), term3), term4), term5)

y2(x, E1, E2, I, L, T, w) ==
  LET term1 == Mul(Div(Neg(w), Mul(Mul(Q(24), E2), I)), Pow(Sub(L, x), 4))
      coefficient == y2_coefficient(E1, E2, I, L, T, w)
      term2 == Mul(coefficient, x)
      term3 == Mul(Div(w, Mul(Mul(Q(24), E1), I)),
                   Sub(Sub(Pow(L, 4), Pow(Sub(L, T), 4)),
                       Mul(Mul(Q(4), Pow(L, 3)), T)))
      term4 == Mul(Div(w, Mul(Mul(Q(24), E2), I)), Pow(Sub(L, T), 4))
      term5 == Mul(Neg(coefficient), T)
  IN  Add(Add(Add(Add(term1, term2), term3), term4), term5)

theta1(x, E1, I, L, w) ==
  Sub(Mul(Div(w, Mul(Mul(Q(6), E1), I)), Pow(Sub(L, x), 3)),
      Div(Mul(w, Pow(L, 3)), Mul(Mul(Q(6), E1), I)))

theta2_coefficient(E1, E2, I, L, T, w) ==
  Mul(Div(Neg(w), Mul(Q(6), I)),
      Add(Div(Sub(Pow(L, 3), Pow(Sub(L, T), 3)), E1),
          Div(Pow(Sub(L, T), 3), E2)))

theta2_E1_first_term(x, E1, E2, I, L, T, w) ==
  LET term1 == Mul(Div(w, Mul(Mul(Q(6), E1), I)), Pow(Sub(L, x), 3))
      coefficient == theta2_coefficient(E1, E2, I, L, T, w)
  IN  Add(term1, coefficient)

theta2(x, E1, E2, I, L, T, w) ==
  LET term1 == Mul(Div(w, Mul(Mul(Q(6), E2), I)), Pow(Sub(L, x), 3))
      coefficient == theta2_coefficient(E1, E2, I, L, T, w)
  IN  Add(term1, coefficient)

(***************************************************************************)
(* Library values.  beam_library is outside the repository's source; a     *)
(* library is three ordered collections.  Names are the identities of the  *)
(* entities, so they are distinct: <<"B", i>>, <<"L", i>>, <<"M", i>> for  *)
(* the i-th beam, load and material.  The i-th material has modulus i + 1, *)
(* the i-th load has magnitude +i or -i, the i-th beam has inertia i.      *)
(***************************************************************************)
MaterialAt(i) == [name |-> <<"M", i>>, E |-> Q(i + 1)]
LoadAt(i) == [name |-> <<"L", i>>, w |-> Q(IF i % 2 = 1 THEN i ELSE -i)]
BeamAt(i, len) == [name |-> <<"B", i>>, length |-> Q(len), inertia |-> Q(i)]

Libraries ==
  { [beams     |-> [i \in 1..nb |-> BeamAt(i, lens[i])],
     loads     |-> [i \in 1..nl |-> LoadAt(i)],
     materials |-> [i \in 1..nm |-> MaterialAt(i)]] :
      <<nb, nl, nm, lens>> \in
        { <<b, l, m, f>> \in (0..MaxBeams) \X (0..MaxLoads) \X (0..MaxMaterials)
                             \X [1..MaxBeams -> 2..MaxL] :
            \A i \in 1..MaxBeams : i > b => f[i] = 2 } }

(***************************************************************************)
(* Library functions used by the sweep.                                    *)
(***************************************************************************)
Step == 2

RECURSIVE arange_from(_, _, _)
arange_from(cur, stop, step) ==
  IF Lt(cur, stop) THEN <<cur>> \o arange_from(Add(cur, step), stop, step)
  ELSE <<>>

arange(start, stop, step) == arange_from(start, stop, step)

x_values_no_pad(L) == arange(Q(0), L, Q(Step))

x_values(L) == arange(Q(0), Add(L, Q(Step)), Q(Step))

product_minor_first(s) ==
  [k \in 1..(Len(s) * Len(s)) |->
     <<s[((k - 1) % Len(s)) + 1], s[((k - 1) \div Len(s)) + 1]>>]

product(s) ==
  [k \in 1..(Len(s) * Len(s)) |->
     <<s[((k - 1) \div Len(s)) + 1], s[((k - 1) % Len(s)) + 1]>>]

\* round(a, 0) of Python: to the nearest integer, ties to the even one.
RoundHalfEven(a) ==
  LET fl == a[1] \div a[2]
      twice == 2 * (a[1] - fl * a[2])
  IN  IF twice < a[2] THEN fl
      ELSE IF twice > a[2] THEN fl + 1
      ELSE IF fl % 2 = 0 THEN fl ELSE fl + 1

\* round(x, 4) for x in metres: the written column, counted in 0.0001 m.
\* A model length unit is 0.00125 m = 25/2 ten-thousandths of a metre.
round4(x) == RoundHalfEven(Mul(x, <<25, 2>>))

\* np.degrees(theta): multiplication by the irrational 180/pi, kept as a term.
degrees(theta) == <<"degrees", theta>>

\* round(theta_degrees, 6), kept as a term over its argument.
round6(d) == <<"round6", d>>

\* float(T_input): a number, or ValueError for text that is no number.
float(s) == IF s[1] = "abc" THEN <<"ValueError">> ELSE s

InRangeClosed(T, L) == T[1] = "num" /\ Lt(Q(0), T[2]) /\ Le(T[2], L)

\* 0 < T < L of Python for a parsed float; every comparison with nan is False.
InRange(T, L) == T[1] = "num" /\ Lt(Q(0), T[2]) /\ Lt(T[2], L)

EmptyDict == [n \in {} |-> 0]

(***************************************************************************)
(* State of a run of main().                                               *)
(*   pc                 position of the run                                *)
(*   library            the BeamLibrary's three collections                *)
(*   beam_i, load_i, pair_i, x_i                                           *)
(*                      positions of the for loops (beam, load, material   *)
(*                      pair of itertools.product, x of x_values)          *)
(*   locals             T_input and T of compute_deflections               *)
(*   transition_points  the dictionary beam name -> T                      *)
(*   file               the CSV file: "unopened", "open", "closed"         *)
(*   rows               the data rows written after the header             *)
(*   printed            the last line written to the console (print, or    *)
(*                      the prompt of input()); "" before the first        *)
(*   rejected           entries rejected so far by the while loop of the   *)
(*                      current beam (bounds the loop in the model)        *)
(*   plot_call          the arguments of the last plt.plot call            *)
(*   args, seg1, seg2   inputs and results of the formulas (FormulaSpec)   *)
(***************************************************************************)
VARIABLES pc, library, beam_i, load_i, pair_i, x_i, locals,
          transition_points, file, rows, printed, rejected, plot_call,
          args, seg1, seg2

sweep_vars == <<pc, library, beam_i, load_i, pair_i, x_i, locals,
                transition_points, file, rows, printed, rejected, plot_call>>
formula_vars == <<args, seg1, seg2>>
vars == <<sweep_vars, formula_vars>>

NoInput == <<"none", Q(0)>>
NoCall == [x |-> <<>>, theta |-> <<>>, made |-> FALSE]
NoArgs == [x |-> Q(0), E1 |-> Q(1), E2 |-> Q(1), I |-> Q(1), L |-> Q(1),
           T |-> Q(0), w |-> Q(0)]

\* What the user may type at the prompt of a beam of length L.
TInputs(L) ==
  {<<"abc", Q(0)>>, <<"nan", Q(0)>>} \cup {<<"num", Q(n)>> : n \in 0..L[1]}

beam == library.beams[beam_i]

Init ==
  /\ pc = "compute"
  /\ library \in Libraries
  /\ beam_i = 0 /\ load_i = 0 /\ pair_i = 0 /\ x_i = 0
  /\ locals = [T_input |-> NoInput, T |-> NoInput]
  /\ transition_points = EmptyDict
  /\ file = "unopened"
  /\ rows = <<>>
  /\ printed = ""
  /\ rejected = 0
  /\ plot_call = NoCall
  /\ args = NoArgs /\ seg1 = <<>> /\ seg2 = <<>>

(***************************************************************************)
(* compute_deflections                                                     *)
(***************************************************************************)
\* Lines 52-62: the line printed for the first empty collection found, in
\* the order beams, loads, materials; "" when none is empty.
empty_report_materials_first(lib) ==
  IF lib.materials = <<>> THEN "No materials defined in the library. Exiting deflection computation."
  ELSE IF lib.loads = <<>> THEN "No loads defined in the library. Exiting deflection computation."
  ELSE IF lib.beams = <<>> THEN "No beams defined in the library. Exiting deflection computation."
  ELSE ""

empty_report(lib) ==
  IF lib.beams = <<>> THEN "No beams defined in the library. Exiting deflection computation."
  ELSE IF lib.loads = <<>> THEN "No loads defined in the library. Exiting deflection computation."
  ELSE IF lib.materials = <<>> THEN "No materials defined in the library. Exiting deflection computation."
  ELSE ""

\* Lines 48-74: with an empty collection, print its line and return {} to
\* main(), which goes on to plot_deflections; otherwise open the file, write
\* the header and start with an empty dictionary.
ComputeStart ==
  /\ pc = "compute"
  /\ IF empty_report(library) # "" THEN
       /\ printed' = empty_report(library)
       /\ pc' = "plot"
       /\ UNCHANGED <<file, transition_points>>
     ELSE
       /\ file' = "open"
       /\ transition_points' = EmptyDict
       /\ pc' = "beam"
       /\ UNCHANGED printed
  /\ UNCHANGED <<library, beam_i, load_i, pair_i, x_i, locals, rows, rejected,
                 plot_call>>
  /\ UNCHANGED formula_vars

\* Lines 77-81 and 119-120: the head of the beam loop.  With a beam left,
\* print its banner and go to the prompt; with none left, close the file,
\* print the closing line and return transition_points to main().
NextBeam ==
  /\ pc = "beam"
  /\ IF beam_i < Len(library.beams) THEN
       /\ beam_i' = beam_i + 1
       /\ printed' = "--- Configuring Beam ---"
       /\ pc' = "prompt"
       /\ UNCHANGED file
     ELSE
       /\ file' = "closed"
       /\ printed' = "Deflection and angular deflection results have been written."
       /\ pc' = "plot"
       /\ beam_i' = 0
  /\ UNCHANGED <<library, load_i, pair_i, x_i, locals, transition_points,
                 rows, rejected, plot_call>>
  /\ UNCHANGED formula_vars

\* Lines 83-93: one pass of the while loop, reading one line of input.
\* T_input and T are assigned before the range check; a rejected value stays
\* in T until the next pass overwrites it.
Prompt ==
  /\ pc = "prompt"
  /\ \E typed \in TInputs(beam.length) :
       LET value == float(typed) IN
       IF value[1] = "ValueError" THEN
         /\ rejected < MaxRejections
         /\ rejected' = rejected + 1
         /\ locals' = [locals EXCEPT !.T_input = typed]
         /\ printed' = "Invalid input. Please enter a numerical value for T."
         /\ UNCHANGED <<pc, transition_points, load_i, pair_i, x_i>>
       ELSE IF InRange(value, beam.length) THEN
         /\ locals' = [T_input |-> typed, T |-> value]
         /\ transition_points' = (beam.name :> value[2]) @@ transition_points
         /\ printed' = "Enter the Transition Point T"
         /\ load_i' = 1 /\ pair_i' = 1 /\ x_i' = 1
         /\ rejected' = 0
         /\ pc' = "rows"
       ELSE
         /\ rejected < MaxRejections
         /\ rejected' = rejected + 1
         /\ locals' = [T_input |-> typed, T |-> value]
         /\ printed' = "Transition Point T must be between 0 and L meters."
         /\ UNCHANGED <<pc, transition_points, load_i, pair_i, x_i>>
  /\ UNCHANGED <<library, beam_i, file, rows, plot_call>>
  /\ UNCHANGED formula_vars

\* Lines 107-117: the row written for one x.
row_default_T(b, load, material1, material2, x, T) ==
  LET I == b.inertia
      L == b.length
      w == load.w
      E1 == material1.E
      E2 == material2.E
      half == Div(L, Q(2))
      y == IF Lt(x, half) THEN y1(x, E1, I, L, w)
           ELSE y2(x, E1, E2, I, L, half, w)
      theta == IF Lt(x, half) THEN theta1(x, E1, I, L, w)
               ELSE theta2(x, E1, E2, I, L, half, w)
  IN  [Beam |-> b.name, Load |-> load.name,
       Material1 |-> material1.name, Material2 |-> material2.name,
       x |-> round4(x), y |-> y, theta |-> round6(degrees(theta))]

row(b, load, material1, material2, x, T) ==
  LET I == b.inertia
      L == b.length
      w == load.w
      E1 == material1.E
      E2 == material2.E
      y == IF Lt(x, T) THEN y1(x, E1, I, L, w)
           ELSE y2(x, E1, E2, I, L, T, w)
      theta == IF Lt(x, T) THEN theta1(x, E1, I, L, w)
               ELSE theta2(x, E1, E2, I, L, T, w)
  IN  [Beam |-> b.name, Load |-> load.name,
       Material1 |-> material1.name, Material2 |-> material2.name,
       x |-> round4(x), y |-> y, theta |-> round6(degrees(theta))]

\* Lines 95-117: one pass of the innermost loop writes one row; the loop
\* heads above it (x, material pair, load) then move to the next position.
\* Every collection is non-empty here and x_values always holds x = 0, so
\* each loop body runs at least once.
WriteRow ==
  /\ pc = "rows"
  /\ LET xs == x_values(beam.length)
         pairs == product(library.materials)
     IN  /\ rows' = Append(rows, row(beam, library.loads[load_i], pairs[pair_i][1],
                                     pairs[pair_i][2], xs[x_i], locals.T[2]))
         /\ IF x_i < Len(xs) THEN
              /\ x_i' = x_i + 1
              /\ UNCHANGED <<pair_i, load_i, pc>>
            ELSE IF pair_i < Len(pairs) THEN
              /\ x_i' = 1 /\ pair_i' = pair_i + 1
              /\ UNCHANGED <<load_i, pc>>
            ELSE IF load_i < Len(library.loads) THEN
              /\ x_i' = 1 /\ pair_i' = 1 /\ load_i' = load_i + 1
              /\ UNCHANGED pc
            ELSE
              /\ x_i' = 0 /\ pair_i' = 0 /\ load_i' = 0
              /\ pc' = "beam"
  /\ UNCHANGED <<library, beam_i, locals, transition_points, file, printed,
                 rejected, plot_call>>
  /\ UNCHANGED formula_vars

(***************************************************************************)
(* plot_deflections, called by main() with the returned dictionary.        *)
(***************************************************************************)
\* Lines 128-142: the three empty checks of plot_deflections.
PlotStart ==
  /\ pc = "plot"
  /\ IF library.beams = <<>> THEN
       /\ printed' = "Script execution completed."
       /\ pc' = "finished"
     ELSE IF library.loads = <<>> THEN
       /\ printed' = "Script execution completed."
       /\ pc' = "finished"
     ELSE IF library.materials = <<>> THEN
       /\ printed' = "Script execution completed."
       /\ pc' = "finished"
     ELSE
       /\ pc' = "plot_beam"
       /\ UNCHANGED printed
  /\ UNCHANGED <<library, beam_i, load_i, pair_i, x_i, locals, transition_points,
                 file, rows, rejected, plot_call>>
  /\ UNCHANGED formula_vars

\* transition_points.get(beam.name, L / 2) of line 150.
get(d, name, default) == IF name \in DOMAIN d THEN d[name] ELSE default

\* Lines 145-167 and 196-198, 210: the head of the beam loop of the plot.
PlotBeam ==
  /\ pc = "plot_beam"
  /\ IF beam_i < Len(library.beams) THEN
       /\ beam_i' = beam_i + 1
       /\ locals' = [locals EXCEPT !.T =
            <<"num", get(transition_points, library.beams[beam_i + 1].name,
                         Div(library.beams[beam_i + 1].length, Q(2)))>>]
       /\ printed' = "Using Transition Point T"
       /\ pair_i' = 1
       /\ pc' = "plot_pair"
     ELSE
       /\ printed' = "Script execution completed."
       /\ pc' = "finished"
       /\ UNCHANGED <<beam_i, locals, pair_i>>
  /\ UNCHANGED <<library, load_i, x_i, transition_points, file, rows, rejected,
                 plot_call>>
  /\ UNCHANGED formula_vars

\* Lines 176-187: theta_values after the loop over the first k loads; each
\* load appends one value per x to the same list.
RECURSIVE theta_values(_, _, _, _, _, _)
theta_values(k, b, loads, material1, material2, T) ==
  IF k = 0 THEN <<>>
  ELSE LET xs == x_values(b.length)
           w == loads[k].w
       IN  theta_values(k - 1, b, loads, material1, material2, T) \o
           [i \in 1..Len(xs) |->
              degrees(IF Lt(xs[i], T)
                      THEN theta1(xs[i], material1.E, b.inertia, b.length, w)
                      ELSE theta2(xs[i], material1.E, material2.E, b.inertia,
                                  b.length, T, w))]

\* Lines 170-193: one material pair: build x_values and theta_values and
\* call plt.plot(x_values, theta_values), which raises ValueError when its
\* two arguments differ in length.  After the last pair the figure is shown
\* (lines 196-198) and the beam loop goes on.
PlotPair ==
  /\ pc = "plot_pair"
  /\ LET pairs == product(library.materials)
         xs == x_values(beam.length)
         thetas == theta_values(Len(library.loads), beam, library.loads,
                                pairs[pair_i][1], pairs[pair_i][2], locals.T[2])
     IN  /\ plot_call' = [x |-> xs, theta |-> thetas, made |-> TRUE]
         /\ IF Len(xs) # Len(thetas) THEN
              /\ pc' = "raised"
              /\ UNCHANGED pair_i
            ELSE IF pair_i < Len(pairs) THEN
              /\ pair_i' = pair_i + 1
              /\ UNCHANGED pc
            ELSE
              /\ pair_i' = 0
              /\ pc' = "plot_beam"
  /\ UNCHANGED <<library, beam_i, load_i, x_i, locals, transition_points, file,
                 rows, printed, rejected>>
  /\ UNCHANGED formula_vars

Next == ComputeStart \/ NextBeam \/ Prompt \/ WriteRow \/ PlotStart \/ PlotBeam
        \/ PlotPair

Spec == Init /\ [][Next]_vars

(***************************************************************************)
(* The formulas as pure functions: the arguments are drawn in the initial  *)
(* state and each action applies the formulas of one segment to them.      *)
(***************************************************************************)
FormulaArgs ==
  { [x |-> Q(x), E1 |-> Q(E1), E2 |-> Q(E2), I |-> Q(I), L |-> Q(L),
     T |-> Q(T), w |-> Q(w)] :
      <<x, E1, E2, I, L, T, w>> \in
        { t \in (0..MaxL) \X (1..MaxE) \X (1..MaxE) \X (1..MaxI) \X (2..MaxL)
                \X (1..MaxL) \X ((-MaxW)..MaxW) :
            t[1] <= t[5] /\ t[6] < t[5] } }

FormulaInit ==
  /\ pc = "formulas"
  /\ library = [beams |-> <<>>, loads |-> <<>>, materials |-> <<>>]
  /\ beam_i = 0 /\ load_i = 0 /\ pair_i = 0 /\ x_i = 0
  /\ locals = [T_input |-> NoInput, T |-> NoInput]
  /\ transition_points = EmptyDict
  /\ file = "unopened"
  /\ rows = <<>>
  /\ printed = ""
  /\ rejected = 0
  /\ plot_call = NoCall
  /\ args \in FormulaArgs
  /\ seg1 = <<>> /\ seg2 = <<>>

EvalSegment1 ==
  /\ pc = "formulas"
  /\ seg1 = <<>>
  /\ seg1' = <<y1(args.x, args.E1, args.I, args.L, args.w),
               theta1(args.x, args.E1, args.I, args.L, args.w)>>
  /\ UNCHANGED <<args, seg2>>
  /\ UNCHANGED sweep_vars

EvalSegment2 ==
  /\ pc = "formulas"
  /\ seg2 = <<>>
  /\ seg2' = <<y2(args.x, args.E1, args.E2, args.I, args.L, args.T, args.w),
               theta2(args.x, args.E1, args.E2, args.I, args.L, args.T, args.w)>>
  /\ UNCHANGED <<args, seg1>>
  /\ UNCHANGED sweep_vars

FormulaNext == EvalSegment1 \/ EvalSegment2

FormulaSpec == FormulaInit /\ [][FormulaNext]_vars

(***************************************************************************)
(* Properties.                                                             *)
(***************************************************************************)
BeamNamed(name) == library.beams[name[2]]
LoadNamed(name) == library.loads[name[2]]
MaterialNamed(name) == library.materials[name[2]]

\* The x of a row in model length units, from its column in 0.0001 m.
RowX(r) == Div(Q(r.x), <<25, 2>>)

\* C1: continuity at the transition point: evaluated at x = T, the
\* segment-1 and segment-2 formulas give the same deflection and the same
\* slope.
C1_Continuity ==
  (seg1 # <<>> /\ seg2 # <<>> /\ args.x = args.T)
    => (seg1[1] = seg2[1] /\ seg1[2] = seg2[2])

C1_Witness ==
  /\ seg1 # <<>> /\ seg2 # <<>>
  /\ args.x = args.T
  /\ args.E1 # args.E2
  /\ args.w # Q(0)
  /\ seg2[1] # Q(0) /\ seg2[2] # Q(0)

C3_SamplesWithinBeam ==
  /\ \A i \in DOMAIN rows :
       /\ Le(Q(0), RowX(rows[i]))
       /\ Le(RowX(rows[i]), BeamNamed(rows[i].Beam).length)
  /\ rows # <<>> => rows[1].x = 0

\* C4: the rows are in strictly ascending lexicographic order of (beam
\* position, load position, material1 position, material2 position, x), and
\* once the sweep is complete every (beam, load, ordered material pair) has
\* rows.  Strict order makes each group one contiguous run with x strictly
\* ascending inside it.
RowKey(r) == <<r.Beam[2], r.Load[2], r.Material1[2], r.Material2[2], r.x>>

LexLt(a, b) ==
  \E k \in 1..5 : a[k] < b[k] /\ \A j \in 1..(k - 1) : a[j] = b[j]

C4_RecordOrder ==
  /\ \A i \in 1..(Len(rows) - 1) : LexLt(RowKey(rows[i]), RowKey(rows[i + 1]))
  /\ file = "closed" =>
       \A b \in DOMAIN library.beams, l \in DOMAIN library.loads,
          m1 \in DOMAIN library.materials, m2 \in DOMAIN library.materials :
         \E i \in DOMAIN rows :
           /\ rows[i].Beam = library.beams[b].name
           /\ rows[i].Load = library.loads[l].name
           /\ rows[i].Material1 = library.materials[m1].name
           /\ rows[i].Material2 = library.materials[m2].name

C4_Witness ==
  /\ file = "closed"
  /\ Len(library.beams) = 2 /\ Len(library.loads) = 2
  /\ Len(library.materials) = 2
  /\ \E i \in DOMAIN rows : rows[i].Material1[2] = 2 /\ rows[i].Material2[2] = 1

\* C5: a completed sweep has written, for each beam b, W * M^2 *
\* ceil(L_b / s + 1) rows.
CeilQ(a) == -((-a[1]) \div a[2])

RECURSIVE ExpectedRecords(_)
ExpectedRecords(k) ==
  IF k = 0 THEN 0
  ELSE ExpectedRecords(k - 1)
       + Len(library.loads) * Len(library.materials) * Len(library.materials)
         * CeilQ(Add(Div(library.beams[k].length, Q(Step)), Q(1)))

C6_EmptyHandling ==
  (library.beams = <<>> \/ library.loads = <<>> \/ library.materials = <<>>)
    => /\ rows = <<>>
       /\ file = "unopened"
       /\ transition_points = EmptyDict
       /\ pc \in {"compute", "plot", "finished"}
       /\ printed # "Enter the Transition Point T"
       /\ pc = "plot" =>
            printed =
              IF library.beams = <<>>
              THEN "No beams defined in the library. Exiting deflection computation."
              ELSE IF library.loads = <<>>
              THEN "No loads defined in the library. Exiting deflection computation."
              ELSE "No materials defined in the library. Exiting deflection computation."

C6_Witness ==
  /\ pc = "plot"
  /\ library.beams # <<>>
  /\ library.loads = <<>> /\ library.materials = <<>>
  /\ printed = "No loads defined in the library. Exiting deflection computation."

\* C7: an entry that is not a number, or not strictly between 0 and L, is
\* rejected: nothing is stored, no row is written and the loop stays at the
\* prompt; an entry T with 0 < T < L ends the loop with T stored for the
\* beam.  So every stored T, and the T in use while rows are written, lies
\* strictly between 0 and L of its beam, and rows exist only for beams with
\* a stored T.
ValidEntry(typed, L) ==
  typed[1] = "num" /\ typed[2][1] > 0 /\ typed[2][1] * L[2] < L[1] * typed[2][2]

C7_StoredValid ==
  /\ \A n \in DOMAIN transition_points :
       ValidEntry(<<"num", transition_points[n]>>, BeamNamed(n).length)
  /\ pc = "rows" => ValidEntry(locals.T, beam.length)
  /\ \A i \in DOMAIN rows : rows[i].Beam \in DOMAIN transition_points

C7_PromptStep ==
  pc = "prompt" =>
    IF ValidEntry(locals'.T_input, beam.length)
    THEN /\ pc' = "rows"
         /\ beam.name \in DOMAIN transition_points'
         /\ transition_points'[beam.name] = locals'.T_input[2]
    ELSE /\ pc' = "prompt"
         /\ transition_points' = transition_points
         /\ rows' = rows
         /\ printed' \in {"Transition Point T must be between 0 and L meters.",
                          "Invalid input. Please enter a numerical value for T."}

C7_Validation == [](C7_StoredValid) /\ [][C7_PromptStep]_vars

C7_Witness ==
  /\ pc = "prompt"
  /\ rejected > 0
  /\ locals.T_input = <<"num", beam.length>>
  /\ beam.name \notin DOMAIN transition_points
  /\ printed = "Transition Point T must be between 0 and L meters."

\* C8: each beam gets one T: it is stored at the single acceptance of the
\* beam's prompt loop, before any row of the beam exists, and is never
\* changed afterwards; every row of the beam, for every load and material
\* pair, holds the values of segment 1 for x < T and of segment 2 for
\* x >= T with that T; rows are only appended, and only outside the prompt.
\* The values of a row are compared when it is written (it is then the last
\* row) and again, for all rows, when compute_deflections returns.
RowEvaluatedWith(r, T) ==
  LET b == BeamNamed(r.Beam)
      w == LoadNamed(r.Load).w
      E1 == MaterialNamed(r.Material1).E
      E2 == MaterialNamed(r.Material2).E
      x == RowX(r)
  IN  IF Lt(x, T)
      THEN /\ r.y = y1(x, E1, b.inertia, b.length, w)
           /\ r.theta = round6(degrees(theta1(x, E1, b.inertia, b.length, w)))
      ELSE /\ r.y = y2(x, E1, E2, b.inertia, b.length, T, w)
           /\ r.theta = round6(degrees(theta2(x, E1, E2, b.inertia, b.length, T, w)))

C8_RowsUseStoredT ==
  /\ \A i \in DOMAIN rows : rows[i].Beam \in DOMAIN transition_points
  /\ rows # <<>> =>
       RowEvaluatedWith(rows[Len(rows)], transition_points[rows[Len(rows)].Beam])
  /\ (pc = "plot" /\ file = "closed") =>
       \A i \in DOMAIN rows :
         RowEvaluatedWith(rows[i], transition_points[rows[i].Beam])
  /\ pc = "prompt" =>
       /\ beam.name \notin DOMAIN transition_points
       /\ \A i \in DOMAIN rows : rows[i].Beam # beam.name
  /\ file = "closed" =>
       \A b \in DOMAIN library.beams :
         library.beams[b].name \in DOMAIN transition_points

C8_Step ==
  /\ transition_points' # transition_points =>
       /\ pc = "prompt" /\ pc' = "rows"
       /\ beam.name \notin DOMAIN transition_points
       /\ DOMAIN transition_points' = DOMAIN transition_points \cup {beam.name}
       /\ \A n \in DOMAIN transition_points :
            transition_points'[n] = transition_points[n]
  /\ rows' # rows =>
       /\ pc = "rows"
       /\ Len(rows') = Len(rows) + 1
       /\ SubSeq(rows', 1, Len(rows)) = rows
       /\ rows'[Len(rows')].Beam = beam.name

C8_OneTPerBeam == [](C8_RowsUseStoredT) /\ [][C8_Step]_vars

C8_Witness ==
  /\ file = "closed"
  /\ Len(library.beams) = 2 /\ Len(library.loads) = 2
  /\ Len(library.materials) = 2
  /\ transition_points[<<"B", 1>>] # transition_points[<<"B", 2>>]
  /\ \E i \in DOMAIN rows :
       /\ rows[i].Beam = <<"B", 2>>
       /\ rows[i].Material1 # rows[i].Material2
       /\ Lt(transition_points[<<"B", 2>>], RowX(rows[i]))

\* C10: the theta list passed to plt.plot has one entry per x sample.
C10_PlotLengths ==
  plot_call.made => Len(plot_call.theta) = Len(plot_call.x)

====
